---------------------------- MODULE Spec2Model ----------------------------
(***************************************************************************)
(* A model of the completion pipeline of openai-mock: request validation   *)
(* (src/validators), choice generation (src/utils/choices.rs), the token   *)
(* counter (src/utils/token_counting.rs) and the handler that ties them    *)
(* together (src/handlers/completion_handler.rs).                          *)
(*                                                                         *)
(* Representation.                                                         *)
(*   - A text (Rust String / &str) is a sequence of characters; every      *)
(*     character is a one-element string, except the two multi-byte        *)
(*     characters ROBOT and REPLACEMENT.                                   *)
(*   - Option<T>: None is <<>>, Some(v) is <<v>>.                          *)
(*   - f32 fields are fixed-point numbers in tenths (2.0 is 20).           *)
(*   - u32 values live in 0 .. U32Modulus-1; the word is scaled down to    *)
(*     U32Bits bits because the model checker's integers are 32-bit.       *)
(***************************************************************************)
EXTENDS Integers, Sequences, FiniteSets, TLC

(***************************************************************************)
(* Option<T>                                                               *)
(***************************************************************************)
None == <<>>

Some(v) == <<v>>

IsSome(o) == o # <<>>

Unwrap(o) == o[1]

unwrap_or(o, d) == IF IsSome(o) THEN o[1] ELSE d

(***************************************************************************)
(* Characters, bytes and UTF-8                                             *)
(***************************************************************************)
\* U+1F916, a four-byte character
ROBOT == "U+1F916"

\* U+FFFD, what from_utf8_lossy writes for an invalid byte sequence
REPLACEMENT == "U+FFFD"

MultiByteChars == {ROBOT, REPLACEMENT}

\* char::is_whitespace, on the characters of the model
is_whitespace(c) == c = " "

\* The UTF-8 bytes of one character
Utf8Char(c) ==
    CASE c = ROBOT -> <<"F0", "9F", "A4", "96">>
      [] c = REPLACEMENT -> <<"EF", "BF", "BD">>
      [] OTHER -> <<c>>

RECURSIVE as_bytes(_)
\* str::as_bytes: the UTF-8 bytes of a text
as_bytes(text) ==
    IF text = <<>> THEN <<>>
    ELSE Utf8Char(Head(text)) \o as_bytes(Tail(text))

IsPrefix(p, s) == Len(p) <= Len(s) /\ SubSeq(s, 1, Len(p)) = p

Drop(s, k) == SubSeq(s, k + 1, Len(s))

\* The bytes that only occur inside a multi-byte character
NonAsciiBytes == UNION {{Utf8Char(c)[i] : i \in 1..Len(Utf8Char(c))} : c \in MultiByteChars}

\* Length of the maximal prefix of bytes that starts, but does not complete,
\* a multi-byte character (at least 1: a stray byte is replaced alone)
InvalidLen(bytes) ==
    LET ks == {k \in 1..Len(bytes) :
                  \E c \in MultiByteChars :
                      /\ k < Len(Utf8Char(c))
                      /\ SubSeq(bytes, 1, k) = SubSeq(Utf8Char(c), 1, k)}
    IN  IF ks = {} THEN 1 ELSE CHOOSE k \in ks : \A j \in ks : j <= k

RECURSIVE from_utf8_lossy(_)
\* String::from_utf8_lossy: valid characters are kept, every maximal invalid
\* sequence becomes one REPLACEMENT
from_utf8_lossy(bytes) ==
    IF bytes = <<>> THEN <<>>
    ELSE IF Head(bytes) \notin NonAsciiBytes
         THEN <<Head(bytes)>> \o from_utf8_lossy(Tail(bytes))
    ELSE IF \E c \in MultiByteChars : IsPrefix(Utf8Char(c), bytes)
         THEN LET c == CHOOSE d \in MultiByteChars : IsPrefix(Utf8Char(d), bytes)
              IN  <<c>> \o from_utf8_lossy(Drop(bytes, Len(Utf8Char(c))))
    ELSE <<REPLACEMENT>> \o from_utf8_lossy(Drop(bytes, InvalidLen(bytes)))

(***************************************************************************)
(* Text operations of the standard library used by the code                *)
(***************************************************************************)
RECURSIVE trim_start(_)
trim_start(s) ==
    IF s # <<>> /\ is_whitespace(Head(s)) THEN trim_start(Tail(s)) ELSE s

RECURSIVE trim_end(_)
trim_end(s) ==
    IF s # <<>> /\ is_whitespace(s[Len(s)]) THEN trim_end(SubSeq(s, 1, Len(s) - 1)) ELSE s

\* str::trim
trim(s) == trim_end(trim_start(s))

\* The positions at which pat occurs in s
Occurrences(s, pat) ==
    {i \in 1..(Len(s) - Len(pat) + 1) : SubSeq(s, i, i + Len(pat) - 1) = pat}

\* str::contains
contains(s, pat) == Occurrences(s, pat) # {}

\* The part of s before the last occurrence of pat, all of s when there is
\* none
split_last(s, pat) ==
    IF contains(s, pat)
    THEN LET i == CHOOSE k \in Occurrences(s, pat) : \A j \in Occurrences(s, pat) : j <= k
         IN  SubSeq(s, 1, i - 1)
    ELSE s

\* s.split(pat).next().unwrap_or(""): the part of s before the first
\* occurrence of pat, all of s when there is none
split_first(s, pat) ==
    IF contains(s, pat)
    THEN LET i == CHOOSE k \in Occurrences(s, pat) : \A j \in Occurrences(s, pat) : k <= j
         IN  SubSeq(s, 1, i - 1)
    ELSE s

RECURSIVE split_whitespace(_)
\* str::split_whitespace, collected: the maximal runs of non-whitespace
split_whitespace(s) ==
    LET t == trim_start(s)
        ends == {k \in 1..Len(t) : is_whitespace(t[k])}
        stop == IF ends = {} THEN Len(t) + 1 ELSE CHOOSE k \in ends : \A j \in ends : k <= j
    IN  IF t = <<>> THEN <<>>
        ELSE <<SubSeq(t, 1, stop - 1)>> \o split_whitespace(Drop(t, stop - 1))

(***************************************************************************)
(* tiktoken_rs (an external crate): byte-pair encoding.  A token is a      *)
(* non-empty byte sequence; an encoding is its ordered list of merges,     *)
(* lowest rank first.  The three tables below stand in for the real        *)
(* vocabularies and keep their structure: ASCII bytes are tokens, frequent *)
(* pairs are merged, REPLACEMENT is one token, and a four-byte character   *)
(* is one token in the largest vocabulary and several in the others.       *)
(***************************************************************************)
cl100k_base ==
    << << <<"EF">>, <<"BF">> >>,
       << <<"EF", "BF">>, <<"BD">> >>,
       << <<"a">>, <<"b">> >>,
       << <<"F0">>, <<"9F">> >>,
       << <<"n">>, <<"u">> >>,
       << <<"l">>, <<"l">> >>,
       << <<"n", "u">>, <<"l", "l">> >> >>

o200k_base ==
    << << <<"EF">>, <<"BF">> >>,
       << <<"EF", "BF">>, <<"BD">> >>,
       << <<"a">>, <<"b">> >>,
       << <<"F0">>, <<"9F">> >>,
       << <<"F0", "9F">>, <<"A4">> >>,
       << <<"F0", "9F", "A4">>, <<"96">> >>,
       << <<" ">>, <<"a">> >>,
       << <<"n">>, <<"u">> >>,
       << <<"l">>, <<"l">> >>,
       << <<"n", "u">>, <<"l", "l">> >> >>

p50k_base ==
    << << <<"EF">>, <<"BF">> >>,
       << <<"EF", "BF">>, <<"BD">> >>,
       << <<"F0">>, <<"9F">> >>,
       << <<"l">>, <<"l">> >> >>

\* get_encoding(name): the table of a known encoding
get_encoding(name) ==
    CASE name = "cl100k_base" -> cl100k_base
      [] name = "o200k_base" -> o200k_base
      [] name = "p50k_base" -> p50k_base

\* The rank of the merge of x and y in an encoding, 0 when it has none
MergeRank(encoding, x, y) ==
    LET ks == {k \in 1..Len(encoding) : encoding[k] = <<x, y>>}
    IN  IF ks = {} THEN 0 ELSE CHOOSE k \in ks : TRUE

RECURSIVE byte_pair_merge(_, _)
\* Merge the adjacent pair of lowest rank (the leftmost of them) until no
\* adjacent pair has a merge
byte_pair_merge(encoding, parts) ==
    LET cand == {i \in 1..(Len(parts) - 1) : MergeRank(encoding, parts[i], parts[i + 1]) > 0}
        rank(i) == MergeRank(encoding, parts[i], parts[i + 1])
    IN  IF cand = {} THEN parts
        ELSE LET i == CHOOSE k \in cand :
                          \A j \in cand : rank(k) < rank(j) \/ (rank(k) = rank(j) /\ k <= j)
                 merged == [j \in 1..(Len(parts) - 1) |->
                               IF j < i THEN parts[j]
                               ELSE IF j = i THEN parts[i] \o parts[i + 1]
                               ELSE parts[j + 1]]
             IN  byte_pair_merge(encoding, merged)

\* CoreBPE::encode_ordinary: the tokens of a text
encode_ordinary(encoding, text) ==
    LET bytes == as_bytes(text)
    IN  byte_pair_merge(encoding, [i \in 1..Len(bytes) |-> <<bytes[i]>>])

RECURSIVE decode(_)
\* CoreBPE::decode: the bytes of a token sequence
decode(tokens) ==
    IF tokens = <<>> THEN <<>> ELSE Head(tokens) \o decode(Tail(tokens))

(***************************************************************************)
(* Known model identifiers (src/utils/token_counting.rs)                   *)
(***************************************************************************)
GPT_4 == <<"g", "p", "t", "-", "4">>

GPT_35_TURBO == <<"g", "p", "t", "-", "3", ".", "5", "-", "t", "u", "r", "b", "o">>

TEXT_EMBEDDING_ADA_002 ==
    <<"t", "e", "x", "t", "-", "e", "m", "b", "e", "d", "d", "i", "n", "g", "-",
      "a", "d", "a", "-", "0", "0", "2">>

GPT_4O == GPT_4 \o <<"o">>

GPT_4O_MINI == GPT_4O \o <<"-", "m", "i", "n", "i">>

TEXT_DAVINCI == <<"t", "e", "x", "t", "-", "d", "a", "v", "i", "n", "c", "i", "-", "0", "0">>

TEXT_DAVINCI_002 == TEXT_DAVINCI \o <<"2">>

TEXT_DAVINCI_003 == TEXT_DAVINCI \o <<"3">>

(***************************************************************************)
(* TokenCounter                                                            *)
(***************************************************************************)
\* TokenCounter::new: the encoding selected for a model name (the lookups of
\* the three known encoding names never fail, so the result is always Ok)
TokenCounter_new(model) ==
    [encoding |->
        IF model \in {GPT_4, GPT_35_TURBO, TEXT_EMBEDDING_ADA_002} THEN get_encoding("cl100k_base")
        ELSE IF model \in {GPT_4O, GPT_4O_MINI} THEN get_encoding("o200k_base")
        ELSE IF model \in {TEXT_DAVINCI_002, TEXT_DAVINCI_003} THEN get_encoding("p50k_base")
        ELSE get_encoding("cl100k_base")]

\* TokenCounter::count_tokens
count_tokens(self, text) == Len(encode_ordinary(self.encoding, text))

\* truncate_to_tokens one token short at the limit
truncate_to_tokens_off_by_one(self, text, max_tokens) ==
    LET tokens == encode_ordinary(self.encoding, text)
    IN  IF Len(tokens) < max_tokens THEN text
        ELSE from_utf8_lossy(decode(SubSeq(tokens, 1, max_tokens - 1)))

\* TokenCounter::truncate_to_tokens
truncate_to_tokens(self, text, max_tokens) ==
    LET tokens == encode_ordinary(self.encoding, text)
    IN  IF Len(tokens) <= max_tokens THEN text
        ELSE from_utf8_lossy(decode(SubSeq(tokens, 1, max_tokens)))

(***************************************************************************)
(* u32                                                                     *)
(***************************************************************************)
\* The width of the u32 word in the model
U32Bits == 5

U32Modulus == 2 ^ U32Bits

U32Max == U32Modulus - 1

\* a + b overflows the word
overflows_u32(a, b) == a + b >= U32Modulus

\* a + b as a build without overflow checks computes it
wrapping_add_u32(a, b) == (a + b) % U32Modulus

\* TokenCounter::calculate_usage
calculate_usage(self, prompt, completion) ==
    LET prompt_tokens == count_tokens(self, prompt)
        completion_tokens == count_tokens(self, completion)
    IN  [prompt_tokens |-> prompt_tokens,
         completion_tokens |-> completion_tokens,
         total_tokens |-> wrapping_add_u32(prompt_tokens, completion_tokens)]

(***************************************************************************)
(* Validators.  Result<(), String>: Ok, or Err with the message (its fixed *)
(* text and the values interpolated into it).                              *)
(***************************************************************************)
Ok == [ok |-> TRUE, msg |-> <<>>]

Err(m) == [ok |-> FALSE, msg |-> m]

is_err(result) == ~result.ok

\* validate_required_fields with the check of the older handler (src/lib.rs):
\* is_empty without trim
validate_required_fields_no_trim(r) ==
    IF r.model = <<>> THEN Err(<<"model field must not be empty">>) ELSE Ok

\* validate_required_fields
validate_required_fields(r) ==
    IF trim(r.model) = <<>> THEN Err(<<"model field must not be empty">>) ELSE Ok

\* validate_temperature (tenths)
validate_temperature(temperature) ==
    IF IsSome(temperature) /\ (Unwrap(temperature) < 0 \/ Unwrap(temperature) > 20)
    THEN Err(<<"Temperature must be between 0.0 and 2.0, got", Unwrap(temperature)>>)
    ELSE Ok

\* validate_top_p with the upper bound excluded
validate_top_p_exclusive(top_p) ==
    IF IsSome(top_p) /\ (Unwrap(top_p) < 0 \/ Unwrap(top_p) >= 10)
    THEN Err(<<"Top_p must be between 0.0 and 1.0, got", Unwrap(top_p)>>)
    ELSE Ok

\* validate_top_p (tenths)
validate_top_p(top_p) ==
    IF IsSome(top_p) /\ (Unwrap(top_p) < 0 \/ Unwrap(top_p) > 10)
    THEN Err(<<"Top_p must be between 0.0 and 1.0, got", Unwrap(top_p)>>)
    ELSE Ok

\* validate_n
validate_n(n) ==
    IF IsSome(n) /\ Unwrap(n) <= 0
    THEN Err(<<"n must be a positive integer, got", Unwrap(n)>>)
    ELSE Ok

\* validate_max_tokens that lets 0 through
validate_max_tokens_allows_zero(max_tokens) ==
    IF IsSome(max_tokens) /\ Unwrap(max_tokens) < 0
    THEN Err(<<"max_tokens must be a positive integer, got", Unwrap(max_tokens)>>)
    ELSE Ok

\* validate_max_tokens
validate_max_tokens(max_tokens) ==
    IF IsSome(max_tokens) /\ Unwrap(max_tokens) <= 0
    THEN Err(<<"max_tokens must be a positive integer, got", Unwrap(max_tokens)>>)
    ELSE Ok

\* validate_presence_penalty (tenths)
validate_presence_penalty(presence_penalty) ==
    IF IsSome(presence_penalty) /\ (Unwrap(presence_penalty) < -20 \/ Unwrap(presence_penalty) > 20)
    THEN Err(<<"Presence penalty must be between -2.0 and 2.0, got", Unwrap(presence_penalty)>>)
    ELSE Ok

\* validate_frequency_penalty (tenths)
validate_frequency_penalty(frequency_penalty) ==
    IF IsSome(frequency_penalty) /\ (Unwrap(frequency_penalty) < -20 \/ Unwrap(frequency_penalty) > 20)
    THEN Err(<<"Frequency penalty must be between -2.0 and 2.0, got", Unwrap(frequency_penalty)>>)
    ELSE Ok

\* validate_best_of without the comparison with n
validate_best_of_alone(best_of, n) ==
    IF IsSome(best_of) /\ Unwrap(best_of) <= 0
    THEN Err(<<"best_of must be a positive integer, got", Unwrap(best_of)>>)
    ELSE Ok

\* validate_best_of
validate_best_of(best_of, n) ==
    IF IsSome(best_of) /\ Unwrap(best_of) <= 0
    THEN Err(<<"best_of must be a positive integer, got", Unwrap(best_of)>>)
    ELSE IF IsSome(best_of) /\ IsSome(n) /\ Unwrap(best_of) < Unwrap(n)
    THEN Err(<<"best_of must be greater than or equal to n, got", Unwrap(best_of), Unwrap(n)>>)
    ELSE Ok

\* validate_logprobs
validate_logprobs(logprobs) ==
    IF IsSome(logprobs) /\ Unwrap(logprobs) < 0
    THEN Err(<<"logprobs must be a non-negative integer, got", Unwrap(logprobs)>>)
    ELSE Ok

\* enum StopSequence
Single(s) == [tag |-> "Single", val |-> s]

Multiple(v) == [tag |-> "Multiple", val |-> v]

\* validate_stop that only looks at the first element of a list
validate_stop_first_element(stop) ==
    IF ~IsSome(stop) THEN Ok
    ELSE LET stop_value == Unwrap(stop)
         IN  IF stop_value.tag = "Single"
             THEN IF stop_value.val = <<>> THEN Err(<<"Stop sequence cannot be empty">>) ELSE Ok
             ELSE IF stop_value.val = <<>> THEN Err(<<"Stop sequences array cannot be empty">>)
             ELSE IF stop_value.val[1] = <<>>
             THEN Err(<<"Stop sequence at index cannot be empty", 0>>)
             ELSE Ok

\* validate_stop
validate_stop(stop) ==
    IF ~IsSome(stop) THEN Ok
    ELSE LET stop_value == Unwrap(stop)
             empties == {i \in 1..Len(stop_value.val) : stop_value.val[i] = <<>>}
         IN  IF stop_value.tag = "Single"
             THEN IF stop_value.val = <<>> THEN Err(<<"Stop sequence cannot be empty">>) ELSE Ok
             ELSE IF stop_value.val = <<>> THEN Err(<<"Stop sequences array cannot be empty">>)
             ELSE IF empties # {}
             THEN Err(<<"Stop sequence at index cannot be empty",
                        (CHOOSE i \in empties : \A j \in empties : i <= j) - 1>>)
             ELSE Ok

(***************************************************************************)
(* serde_json::Value, as far as a prompt uses it                           *)
(***************************************************************************)
Null == [tag |-> "Null", val |-> <<>>]

String(s) == [tag |-> "String", val |-> s]

RECURSIVE json_escape(_)
\* serde_json's string escaping: quote and backslash get a backslash
json_escape(s) ==
    IF s = <<>> THEN <<>>
    ELSE (IF Head(s) \in {"\"", "\\"} THEN <<"\\", Head(s)>> ELSE <<Head(s)>>)
         \o json_escape(Tail(s))

\* <Value as Display>::to_string: the JSON text of the value
to_string(value) ==
    IF value.tag = "Null" THEN <<"n", "u", "l", "l">>
    ELSE <<"\"">> \o json_escape(value.val) \o <<"\"">>

(***************************************************************************)
(* Choice and the choice generator (src/utils/choices.rs)                  *)
(***************************************************************************)
\* Choice::new numbering the choices from 1 (as the texts of src/lib.rs do)
Choice_new_one_based(index, text, echo, prompt) ==
    [text |-> IF echo THEN prompt \o text ELSE text,
     index |-> index + 1,
     logprobs |-> None,
     finish_reason |-> None]

\* Choice::new
Choice_new(index, text, echo, prompt) ==
    [text |-> IF echo THEN prompt \o text ELSE text,
     index |-> index,
     logprobs |-> None,
     finish_reason |-> None]

RECURSIVE text_offsets(_, _)
\* The running offset of each token: its length in bytes plus one
text_offsets(tokens, current_offset) ==
    IF tokens = <<>> THEN <<>>
    ELSE <<current_offset>>
         \o text_offsets(Tail(tokens), current_offset + Len(as_bytes(Head(tokens))) + 1)

RECURSIVE insert_all(_, _)
\* HashMap::insert of each drawn (mock_token, mock_logprob), in order: a
\* later insert of the same key replaces the value
insert_all(map, draws) ==
    IF draws = <<>> THEN map
    ELSE LET key == <<"token_", Head(draws)[1]>>
             value == 0 - Head(draws)[2]
         IN  insert_all([k \in (DOMAIN map) \cup {key} |-> IF k = key THEN value ELSE map[k]],
                        Tail(draws))

\* The empty HashMap
HashMap_new == [k \in {} |-> 0]

\* Choice::generate_mock_logprobs; rng holds what the random source returns:
\* rng.token_logprobs[i] for token i, rng.top_logprobs[i][j] = <<id, value>>
\* for the j-th alternative of token i
generate_mock_logprobs(text, logprobs_n, rng) ==
    LET tokens == split_whitespace(text)
    IN  [tokens |-> tokens,
         token_logprobs |-> [i \in 1..Len(tokens) |-> 0 - rng.token_logprobs[i]],
         text_offset |-> text_offsets(tokens, 0),
         top_logprobs |-> [i \in 1..Len(tokens) |->
                              insert_all(HashMap_new, SubSeq(rng.top_logprobs[i], 1, logprobs_n))]]

\* The stop sequence that occurs earliest in the text; 0 if none
first_matching_stop_earliest(generated, stop_sequences) ==
    LET hits == {i \in 1..Len(stop_sequences) : contains(generated, stop_sequences[i])}
        at(i) == CHOOSE k \in Occurrences(generated, stop_sequences[i]) :
                     \A j \in Occurrences(generated, stop_sequences[i]) : k <= j
    IN  IF hits = {} THEN 0
        ELSE CHOOSE i \in hits : \A j \in hits : at(i) < at(j) \/ (at(i) = at(j) /\ i <= j)

\* The first stop sequence, in list order, that the text contains; 0 if none
first_matching_stop(generated, stop_sequences) ==
    LET hits == {i \in 1..Len(stop_sequences) : contains(generated, stop_sequences[i])}
    IN  IF hits = {} THEN 0 ELSE CHOOSE i \in hits : \A j \in hits : i <= j

\* estimated_tokens >= max_tokens, but strictly
reaches_limit_strict(estimated_tokens, max_tokens) == estimated_tokens > max_tokens

\* The test of the token-length check: estimated_tokens >= max_tokens
reaches_limit(estimated_tokens, max_tokens) == estimated_tokens >= max_tokens

\* Choice::generate_text: the choice after the call
generate_text(self, prompt, stop_sequences, max_tokens, echo, logprobs_n, model, rng) ==
    LET generated == IF echo THEN prompt ELSE <<>>
        hit == first_matching_stop(generated, stop_sequences)
        token_counter == TokenCounter_new(model)
        estimated_tokens == count_tokens(token_counter, generated)
    IN  IF hit # 0
        THEN [self EXCEPT !.finish_reason = Some("stop"),
                          !.text = split_first(generated, stop_sequences[hit])]
        ELSE IF reaches_limit(estimated_tokens, max_tokens)
        THEN [self EXCEPT !.finish_reason = Some("length"),
                          !.text = truncate_to_tokens(token_counter, generated, max_tokens)]
        ELSE [self EXCEPT !.text = generated,
                          !.finish_reason = Some("content"),
                          !.logprobs = IF IsSome(logprobs_n)
                                       THEN Some(generate_mock_logprobs(generated, Unwrap(logprobs_n), rng))
                                       ELSE None]

\* The loop body with the number of the choice written into its text, as the
\* older handler of src/lib.rs does ("Mock response {i + 1}")
create_choice_numbered(i, prompt, stop_sequences, max_tokens, echo, logprobs, model, rng) ==
    LET choice == generate_text(Choice_new(i, <<>>, echo, prompt),
                                prompt, stop_sequences, max_tokens, echo, logprobs, model, rng)
    IN  [choice EXCEPT !.text = @ \o <<i + 1>>]

\* The body of the loop of create_choices for index i
create_choice(i, prompt, stop_sequences, max_tokens, echo, logprobs, model, rng) ==
    generate_text(Choice_new(i, <<>>, echo, prompt),
                  prompt, stop_sequences, max_tokens, echo, logprobs, model, rng)

(***************************************************************************)
(* The random source (rand::thread_rng) behind the mock logprobs           *)
(***************************************************************************)
\* gen_range(0..100), scaled down: the identifiers a draw can return
MockTokenRange == 2

\* gen_range(0.0..5.0) and gen_range(0.0..10.0), in tenths: some of the values
TokenLogprobDraws == {0, 49}

TopLogprobDraws == {99}

\* Everything the random source can return to one generate_mock_logprobs
\* call that works on `tokens` tokens with `logprobs_n` alternatives each
RngOutcomes(tokens, logprobs_n) ==
    [token_logprobs : [1..tokens -> TokenLogprobDraws],
     top_logprobs : [1..tokens -> [1..logprobs_n -> (0..(MockTokenRange - 1)) \X TopLogprobDraws]]]

(***************************************************************************)
(* The handler (src/handlers/completion_handler.rs)                        *)
(***************************************************************************)
VARIABLES
    pc,       \* where the handler is: idle, required, optional, choices, respond, done
    req,      \* the CompletionRequest being handled
    local,    \* the handler's locals: prompt, max_tokens, n, echo, logprobs, stop_sequences
    choices,  \* the Vec<Choice> create_choices is filling
    resp,     \* the HTTP response
    call      \* the last direct call of a function (as a test makes it), with its result

vars == <<pc, req, local, choices, resp, call>>

\* The state of the handler
handler_vars == <<pc, req, local, choices, resp>>

\* CompletionRequest::default()
DefaultRequest ==
    [model |-> <<>>,
     prompt |-> None,
     max_tokens |-> Some(16),
     temperature |-> Some(10),
     top_p |-> Some(10),
     n |-> Some(1),
     logprobs |-> None,
     echo |-> Some(FALSE),
     stop |-> None,
     presence_penalty |-> Some(0),
     frequency_penalty |-> Some(0),
     best_of |-> None]

NoLocal ==
    [prompt |-> <<>>, max_tokens |-> 0, n |-> 0, echo |-> FALSE,
     logprobs |-> None, stop_sequences |-> <<>>]

NoUsage == [prompt_tokens |-> 0, completion_tokens |-> 0, total_tokens |-> 0]

\* No response yet
NoResponse == [status |-> 0, param |-> "", choices |-> <<>>, usage |-> NoUsage]

\* HttpResponse::BadRequest with the error object naming param
BadRequest(param) == [status |-> 400, param |-> param, choices |-> <<>>, usage |-> NoUsage]

\* HttpResponse::Ok with the CompletionResponse
OkResponse(cs, usage) == [status |-> 200, param |-> "", choices |-> cs, usage |-> usage]

\* The handler panicked: the request is aborted and no response is written
Aborted == [status |-> -1, param |-> "", choices |-> <<>>, usage |-> NoUsage]

\* count_tokens of the handler: the number of whitespace-separated words
handler_count_tokens(text) == Len(split_whitespace(text))

\* The array with max_tokens checked before n
validators_reordered(r) ==
    << <<"temperature", validate_temperature(r.temperature)>>,
       <<"top_p", validate_top_p(r.top_p)>>,
       <<"max_tokens", validate_max_tokens(r.max_tokens)>>,
       <<"n", validate_n(r.n)>>,
       <<"presence_penalty", validate_presence_penalty(r.presence_penalty)>>,
       <<"frequency_penalty", validate_frequency_penalty(r.frequency_penalty)>>,
       <<"logprobs", validate_logprobs(r.logprobs)>>,
       <<"stop", validate_stop(r.stop)>>,
       <<"best_of", validate_best_of(r.best_of, r.n)>> >>

\* The array `validators` of the handler: each field with its result
validators(r) ==
    << <<"temperature", validate_temperature(r.temperature)>>,
       <<"top_p", validate_top_p(r.top_p)>>,
       <<"n", validate_n(r.n)>>,
       <<"max_tokens", validate_max_tokens(r.max_tokens)>>,
       <<"presence_penalty", validate_presence_penalty(r.presence_penalty)>>,
       <<"frequency_penalty", validate_frequency_penalty(r.frequency_penalty)>>,
       <<"logprobs", validate_logprobs(r.logprobs)>>,
       <<"stop", validate_stop(r.stop)>>,
       <<"best_of", validate_best_of(r.best_of, r.n)>> >>

\* The index of the first Err of the array, 0 when all are Ok
first_error(vs) ==
    LET errs == {i \in 1..Len(vs) : is_err(vs[i][2])}
    IN  IF errs = {} THEN 0 ELSE CHOOSE i \in errs : \A j \in errs : i <= j

\* The stop_sequences the handler passes on
stop_sequences_of(stop) ==
    IF ~IsSome(stop) THEN <<>>
    ELSE IF Unwrap(stop).tag = "Single" THEN <<Unwrap(stop).val>>
    ELSE Unwrap(stop).val

\* The locals of the "mock processing logic"
locals_of(r) ==
    [prompt |-> to_string(unwrap_or(r.prompt, Null)),
     max_tokens |-> unwrap_or(r.max_tokens, 16),
     n |-> unwrap_or(r.n, 1),
     echo |-> unwrap_or(r.echo, FALSE),
     logprobs |-> r.logprobs,
     stop_sequences |-> stop_sequences_of(r.stop)]

\* No function has been called directly
NoCall ==
    [op |-> "none", model |-> <<>>, text |-> <<>>, completion |-> <<>>,
     max_tokens |-> 0, stop |-> None, result |-> <<>>]

Init ==
    /\ pc = "idle"
    /\ req = DefaultRequest
    /\ local = NoLocal
    /\ choices = <<>>
    /\ resp = NoResponse
    /\ call = NoCall

\* A request arrives and is deserialized
Receive(requests) ==
    /\ pc = "idle"
    /\ \E r \in requests : req' = r
    /\ pc' = "required"
    /\ UNCHANGED <<local, choices, resp, call>>

\* validate_required_fields fails: 400 with param "model"
RequiredFieldsRejected ==
    /\ pc = "required"
    /\ is_err(validate_required_fields(req))
    /\ resp' = BadRequest("model")
    /\ pc' = "done"
    /\ UNCHANGED <<req, local, choices, call>>

RequiredFieldsAccepted ==
    /\ pc = "required"
    /\ ~is_err(validate_required_fields(req))
    /\ pc' = "optional"
    /\ UNCHANGED <<req, local, choices, resp, call>>

\* The first failing optional-field validator: 400 with its field as param
OptionalFieldsRejected ==
    /\ pc = "optional"
    /\ LET vs == validators(req)
       IN  /\ first_error(vs) # 0
           /\ resp' = BadRequest(vs[first_error(vs)][1])
    /\ pc' = "done"
    /\ UNCHANGED <<req, local, choices, call>>

\* All validators are Ok: the locals are set and create_choices is entered
OptionalFieldsAccepted ==
    /\ pc = "optional"
    /\ first_error(validators(req)) = 0
    /\ local' = locals_of(req)
    /\ choices' = <<>>
    /\ pc' = "choices"
    /\ UNCHANGED <<req, resp, call>>

\* One iteration of the loop of create_choices
CreateChoice ==
    /\ pc = "choices"
    /\ Len(choices) < local.n
    /\ LET generated == IF local.echo THEN local.prompt ELSE <<>>
           draws == IF IsSome(local.logprobs)
                    THEN RngOutcomes(Len(split_whitespace(generated)), Unwrap(local.logprobs))
                    ELSE RngOutcomes(0, 0)
       IN  \E rng \in draws :
               choices' = Append(choices,
                                 create_choice(Len(choices), local.prompt, local.stop_sequences,
                                               local.max_tokens, local.echo, local.logprobs,
                                               req.model, rng))
    /\ UNCHANGED <<pc, req, local, resp, call>>

\* create_choices returns
ChoicesCreated ==
    /\ pc = "choices"
    /\ Len(choices) >= local.n
    /\ pc' = "respond"
    /\ UNCHANGED <<req, local, choices, resp, call>>

\* The response is assembled; prompt_tokens + max_tokens fits the word
Respond ==
    /\ pc = "respond"
    /\ LET prompt_tokens == handler_count_tokens(local.prompt)
       IN  /\ ~overflows_u32(prompt_tokens, local.max_tokens)
           /\ resp' = OkResponse(choices,
                                 [prompt_tokens |-> prompt_tokens,
                                  completion_tokens |-> local.max_tokens,
                                  total_tokens |-> prompt_tokens + local.max_tokens])
    /\ pc' = "done"
    /\ UNCHANGED <<req, local, choices, call>>

\* prompt_tokens + max_tokens overflows, in a build without overflow checks
\* (release): the sum wraps
RespondWrapped ==
    /\ pc = "respond"
    /\ LET prompt_tokens == handler_count_tokens(local.prompt)
       IN  /\ overflows_u32(prompt_tokens, local.max_tokens)
           /\ resp' = OkResponse(choices,
                                 [prompt_tokens |-> prompt_tokens,
                                  completion_tokens |-> local.max_tokens,
                                  total_tokens |-> wrapping_add_u32(prompt_tokens, local.max_tokens)])
    /\ pc' = "done"
    /\ UNCHANGED <<req, local, choices, call>>

\* prompt_tokens + max_tokens overflows, in a build with overflow checks
\* (debug): the addition panics
RespondPanicked ==
    /\ pc = "respond"
    /\ overflows_u32(handler_count_tokens(local.prompt), local.max_tokens)
    /\ resp' = Aborted
    /\ pc' = "done"
    /\ UNCHANGED <<req, local, choices, call>>

\* The request is over; nothing of it is kept
Finish ==
    /\ pc = "done"
    /\ pc' = "idle"
    /\ req' = DefaultRequest
    /\ local' = NoLocal
    /\ choices' = <<>>
    /\ resp' = NoResponse
    /\ UNCHANGED call

(***************************************************************************)
(* The requests that arrive                                                *)
(***************************************************************************)
\* All texts of at most maxlen characters
Texts(chars, maxlen) == UNION {[1..k -> chars] : k \in 0..maxlen}

\* All sequences of 1 to maxlen elements
NonEmptySeqs(elems, maxlen) == UNION {[1..k -> elems] : k \in 1..maxlen}

FieldNames ==
    {"model", "temperature", "top_p", "n", "max_tokens", "presence_penalty",
     "frequency_penalty", "logprobs", "stop", "best_of"}

\* Per field: a valid and an invalid value
CoreValues ==
    [model |-> {TEXT_DAVINCI_003, <<" ">>},
     temperature |-> {Some(10), Some(21)},
     top_p |-> {Some(10), Some(11)},
     n |-> {Some(2), Some(0)},
     max_tokens |-> {Some(1), Some(0)},
     presence_penalty |-> {Some(0), Some(-21)},
     frequency_penalty |-> {Some(0), Some(21)},
     logprobs |-> {None},
     stop |-> {None, Some(Single(<<>>))},
     best_of |-> {Some(2), Some(1)}]

\* Per field: absent, on and beside each bound
EdgeValues ==
    [model |-> {<<>>, <<" ", " ">>, GPT_35_TURBO, <<" ">> \o GPT_4 \o <<" ">>},
     temperature |-> {None, Some(-1), Some(0), Some(20)},
     top_p |-> {None, Some(-1), Some(0), Some(5)},
     n |-> {None, Some(-1), Some(1)},
     max_tokens |-> {None, Some(2), Some(U32Max)},
     presence_penalty |-> {None, Some(-20), Some(20), Some(21)},
     frequency_penalty |-> {None, Some(-21), Some(-20), Some(20)},
     logprobs |-> {Some(0), Some(1)},
     stop |-> {Some(Single(<<"a">>)), Some(Multiple(<<>>)), Some(Multiple(<< <<"a">> >>)),
               Some(Multiple(<< <<"a">>, <<>> >>)), Some(Multiple(<< <<>>, <<"a">> >>))},
     best_of |-> {None, Some(-1), Some(0), Some(3)}]

\* The values of field f in the family whose wide field is w
Values(f, w) == IF f = w THEN CoreValues[f] \cup EdgeValues[f] ELSE CoreValues[f]

\* Requests for validation: every combination of valid and invalid fields,
\* and one field at a time over its edge values
ValidationRequests ==
    UNION {
        [model : Values("model", w),
         prompt : {Some(String(<<"a">>))},
         max_tokens : Values("max_tokens", w),
         temperature : Values("temperature", w),
         top_p : Values("top_p", w),
         n : Values("n", w),
         logprobs : Values("logprobs", w),
         echo : {None},
         stop : Values("stop", w),
         presence_penalty : Values("presence_penalty", w),
         frequency_penalty : Values("frequency_penalty", w),
         best_of : Values("best_of", w)] : w \in FieldNames}

\* Bounds of the requests for generation
MaxPromptLen == 2

MaxTokens == 3

MaxN == 3

MaxStops == 2

PromptChars == {"a", "b", ROBOT}

StopStrings == {<<"a">>, <<"b">>}

GenerationStops ==
    {None} \cup {Some(Single(s)) : s \in StopStrings}
           \cup {Some(Multiple(v)) : v \in NonEmptySeqs(StopStrings, MaxStops)}

\* Requests for generation: valid, over prompts, stops, max_tokens, n, echo
GenerationRequests ==
    [model : {GPT_4, GPT_4O},
     prompt : {None} \cup {Some(String(t)) : t \in Texts(PromptChars, MaxPromptLen)},
     max_tokens : {None, Some(U32Max)} \cup {Some(m) : m \in 1..MaxTokens},
     temperature : {Some(10)},
     top_p : {Some(10)},
     n : {None} \cup {Some(k) : k \in 1..MaxN},
     logprobs : {None},
     echo : {Some(FALSE), Some(TRUE)},
     stop : GenerationStops,
     presence_penalty : {Some(0)},
     frequency_penalty : {Some(0)},
     best_of : {None}]

\* Requests that ask for logprobs
LogprobsRequests ==
    [model : {GPT_4},
     prompt : {None, Some(String(<<"a">>)), Some(String(<<"a", " ", "b">>))},
     max_tokens : {None, Some(2)},
     temperature : {Some(10)},
     top_p : {Some(10)},
     n : {Some(1), Some(2)},
     logprobs : {Some(0), Some(1), Some(2)},
     echo : {Some(FALSE), Some(TRUE)},
     stop : {None, Some(Single(<<"b">>))},
     presence_penalty : {Some(0)},
     frequency_penalty : {Some(0)},
     best_of : {None}]

Requests == ValidationRequests \cup GenerationRequests \cup LogprobsRequests

Next ==
    \/ Receive(Requests)
    \/ RequiredFieldsRejected
    \/ RequiredFieldsAccepted
    \/ OptionalFieldsRejected
    \/ OptionalFieldsAccepted
    \/ CreateChoice
    \/ ChoicesCreated
    \/ Respond
    \/ RespondWrapped
    \/ RespondPanicked
    \/ Finish

Spec == Init /\ [][Next]_vars

(***************************************************************************)
(* The TokenCounter on its own: its methods called directly                *)
(***************************************************************************)
MaxTextLen == 3

MaxTruncate == 4

TextChars == {"a", "b", " ", ROBOT}

TokenCounterModels == {GPT_4, GPT_4O, TEXT_DAVINCI_003, <<"x">>}

\* counter.count_tokens(text)
CallCountTokens ==
    /\ call.op = "none"
    /\ \E model \in TokenCounterModels, text \in Texts(TextChars, MaxTextLen) :
           call' = [op |-> "count_tokens", model |-> model, text |-> text,
                    completion |-> <<>>, max_tokens |-> 0, stop |-> None,
                    result |-> count_tokens(TokenCounter_new(model), text)]
    /\ UNCHANGED handler_vars

\* counter.truncate_to_tokens(text, max_tokens)
CallTruncateToTokens ==
    /\ call.op = "none"
    /\ \E model \in TokenCounterModels, text \in Texts(TextChars, MaxTextLen),
          max_tokens \in 0..MaxTruncate :
           call' = [op |-> "truncate_to_tokens", model |-> model, text |-> text,
                    completion |-> <<>>, max_tokens |-> max_tokens, stop |-> None,
                    result |-> truncate_to_tokens(TokenCounter_new(model), text, max_tokens)]
    /\ UNCHANGED handler_vars

\* counter.calculate_usage(prompt, completion)
CallCalculateUsage ==
    /\ call.op = "none"
    /\ \E model \in TokenCounterModels, text \in Texts(TextChars, MaxPromptLen),
          completion \in Texts(TextChars, MaxPromptLen) :
           call' = [op |-> "calculate_usage", model |-> model, text |-> text,
                    completion |-> completion, max_tokens |-> 0, stop |-> None,
                    result |-> calculate_usage(TokenCounter_new(model), text, completion)]
    /\ UNCHANGED handler_vars

\* A dated or suffixed variant of a model name
Variant(model) == model \o <<"-", "1">>

\* The model names TokenCounter::new is called with: the known identifiers,
\* variants of them, and names that are not known
ModelNames ==
    LET known == {GPT_4, GPT_35_TURBO, TEXT_EMBEDDING_ADA_002, GPT_4O, GPT_4O_MINI,
                  TEXT_DAVINCI_002, TEXT_DAVINCI_003}
    IN  known \cup {Variant(m) : m \in known} \cup {<<>>, <<"x">>, TEXT_DAVINCI}

\* TokenCounter::new(model)
CallNew ==
    /\ call.op = "none"
    /\ \E model \in ModelNames :
           call' = [NoCall EXCEPT !.op = "new", !.model = model,
                                  !.result = Some(TokenCounter_new(model))]
    /\ UNCHANGED handler_vars

\* The caller has taken the result
CallReturn ==
    /\ call.op # "none"
    /\ call' = NoCall
    /\ UNCHANGED handler_vars

NextTokenCounter ==
    \/ CallNew
    \/ CallCountTokens
    \/ CallTruncateToTokens
    \/ CallCalculateUsage
    \/ CallReturn

SpecTokenCounter == Init /\ [][NextTokenCounter]_vars

(***************************************************************************)
(* validate_stop called directly, as test_validate_stop calls it, beside   *)
(* the handler                                                             *)
(***************************************************************************)
MaxStopList == 3

StopElements == {<<>>, <<"a">>, <<"b">>}

\* The stop values of the direct calls
StopValues ==
    {None} \cup {Some(Single(s)) : s \in StopElements}
           \cup {Some(Multiple(v)) : v \in Texts(StopElements, MaxStopList)}

\* validate_stop(stop)
CallValidateStop ==
    /\ call.op = "none"
    /\ pc = "idle"
    /\ \E stop \in StopValues :
           call' = [NoCall EXCEPT !.op = "validate_stop", !.stop = stop,
                                  !.result = validate_stop(stop)]
    /\ UNCHANGED handler_vars

NextValidateStop ==
    \/ call.op = "none" /\ Next
    \/ CallValidateStop
    \/ CallReturn

SpecValidateStop == Init /\ [][NextValidateStop]_vars

(***************************************************************************)
(* Properties.  The predicates below state the constraints of the request  *)
(* as the specification words them, independently of the validators.       *)
(***************************************************************************)
\* The model name is empty or whitespace only
Blank(model) == \A i \in 1..Len(model) : model[i] = " "

\* The handler has answered the request
Answered == pc = "done"

\* value (tenths) is absent or within lo..hi
Within(value, lo, hi) == value = None \/ (lo <= value[1] /\ value[1] <= hi)

\* The stop value holds an empty string or is an empty list
StopFails(stop) ==
    /\ stop # None
    /\ \/ stop[1].val = <<>>
       \/ stop[1].tag = "Multiple" /\ \E i \in 1..Len(stop[1].val) : stop[1].val[i] = <<>>

\* best_of is not positive, or is below n
BestOfFails(best_of, n) ==
    /\ best_of # None
    /\ \/ best_of[1] <= 0
       \/ n # None /\ best_of[1] < n[1]

\* Field f of request r violates its constraint
Fails(f, r) ==
    CASE f = "temperature" -> ~Within(r.temperature, 0, 20)
      [] f = "top_p" -> ~Within(r.top_p, 0, 10)
      [] f = "n" -> r.n # None /\ r.n[1] <= 0
      [] f = "max_tokens" -> r.max_tokens # None /\ r.max_tokens[1] <= 0
      [] f = "presence_penalty" -> ~Within(r.presence_penalty, -20, 20)
      [] f = "frequency_penalty" -> ~Within(r.frequency_penalty, -20, 20)
      [] f = "logprobs" -> FALSE
      [] f = "stop" -> StopFails(r.stop)
      [] f = "best_of" -> BestOfFails(r.best_of, r.n)

\* The order in which failures are reported
PriorityOrder ==
    <<"temperature", "top_p", "n", "max_tokens", "presence_penalty",
      "frequency_penalty", "logprobs", "stop", "best_of">>

OptionalFields == {PriorityOrder[i] : i \in 1..Len(PriorityOrder)}

RangeFields ==
    {"temperature", "top_p", "presence_penalty", "frequency_penalty", "n", "max_tokens"}

\* C1: a request whose model name is empty or whitespace only is answered
\* 400 with param "model" whatever its other fields are, as soon as the
\* required-field check has run, and no choice is generated for it.
C1_BlankModelRejected ==
    (pc \notin {"idle", "required"} /\ Blank(req.model))
        => (pc = "done" /\ resp = BadRequest("model") /\ choices = <<>>)

\* A whitespace-only model with out-of-range optional fields was answered
C1_Witness ==
    /\ Answered
    /\ req.model = <<" ", " ">>
    /\ Fails("temperature", req)
    /\ Fails("stop", req)
    /\ resp.status = 400
    /\ resp.param = "model"

\* C2: with a non-blank model, when exactly one of temperature, top_p,
\* presence_penalty, frequency_penalty, n, max_tokens is out of range and
\* every other field is valid, the answer is 400 with that field as param;
\* a request whose values are absent or within the inclusive bounds is not
\* rejected.
C2_SingleRangeViolation ==
    (Answered /\ ~Blank(req.model)) =>
        /\ \A f \in RangeFields :
               (Fails(f, req) /\ \A g \in OptionalFields \ {f} : ~Fails(g, req))
                   => (resp.status = 400 /\ resp.param = f)
        /\ (\A g \in OptionalFields : ~Fails(g, req)) => resp.status # 400

\* Only top_p was out of range, and the answer names it
C2_Witness ==
    /\ Answered
    /\ ~Blank(req.model)
    /\ Fails("top_p", req)
    /\ \A g \in OptionalFields \ {"top_p"} : ~Fails(g, req)
    /\ req.temperature = Some(20)
    /\ resp.status = 400
    /\ resp.param = "top_p"

\* C3 as stated: whenever best_of and n are present and best_of < n, the
\* answer is 400 with param "best_of".
C3_Original ==
    (Answered /\ req.best_of # None /\ req.n # None /\ req.best_of[1] < req.n[1])
        => (resp.status = 400 /\ resp.param = "best_of")

\* C3 amended: whenever best_of and n are present and best_of < n, the answer
\* is 400; its param is "best_of" when the model is not blank and no check of
\* higher priority (temperature, top_p, n, max_tokens, presence_penalty,
\* frequency_penalty, stop) fails.
C3_BestOfBelowN ==
    (Answered /\ req.best_of # None /\ req.n # None /\ req.best_of[1] < req.n[1])
        => /\ resp.status = 400
           /\ (~Blank(req.model) /\ \A g \in OptionalFields \ {"best_of"} : ~Fails(g, req))
                  => resp.param = "best_of"

\* best_of = 1 below n = 2, everything else valid, answered with "best_of"
C3_Witness ==
    /\ Answered
    /\ req.n = Some(2)
    /\ req.best_of = Some(1)
    /\ ~Blank(req.model)
    /\ \A g \in OptionalFields \ {"best_of"} : ~Fails(g, req)
    /\ resp.status = 400
    /\ resp.param = "best_of"

\* C4: with a non-blank model and at least one failing optional field, the
\* single 400 answer names the first failing field in the priority order,
\* whichever fields of lower priority fail too.
C4_FirstFailureReported ==
    (Answered /\ ~Blank(req.model) /\ \E f \in OptionalFields : Fails(f, req)) =>
        /\ resp.status = 400
        /\ \E i \in 1..Len(PriorityOrder) :
               /\ resp.param = PriorityOrder[i]
               /\ Fails(PriorityOrder[i], req)
               /\ \A j \in 1..(i - 1) : ~Fails(PriorityOrder[j], req)

\* n, max_tokens, stop and best_of failed together; "n" was reported
C4_Witness ==
    /\ Answered
    /\ ~Blank(req.model)
    /\ Fails("n", req)
    /\ Fails("max_tokens", req)
    /\ Fails("stop", req)
    /\ Fails("best_of", req)
    /\ ~Fails("temperature", req)
    /\ ~Fails("top_p", req)
    /\ resp.param = "n"

\* pat occurs in s
OccursIn(pat, s) == \E k \in 0..(Len(s) - Len(pat)) : SubSeq(s, k + 1, k + Len(pat)) = pat

\* The seed text of the request being handled
Seed == IF local.echo THEN local.prompt ELSE <<>>

\* The positions of the stop sequences of the request that occur in s
StopsIn(s) == {j \in 1..Len(local.stop_sequences) : OccursIn(local.stop_sequences[j], s)}

\* The tokens of text under the encoding of the request's model
TokensOf(text) == encode_ordinary(TokenCounter_new(req.model).encoding, text)

\* C5: create_choices returns exactly n choices (n >= 1), and the i-th of
\* them has index i, counting from 0.
C5_ChoicesIndexed ==
    pc = "respond" =>
        LET n == IF req.n = None THEN 1 ELSE req.n[1]
        IN  /\ n >= 1
            /\ Len(choices) = n
            /\ \A i \in 1..Len(choices) : choices[i].index = i - 1

\* create_choices returned three choices
C5_Witness ==
    /\ pc = "respond"
    /\ req.n = Some(3)
    /\ Len(choices) = 3
    /\ choices[3].index = 2

\* C6: when a stop sequence occurs in the seed text, the text of a choice is
\* the seed text before the first occurrence of the first stop sequence, in
\* list order, that occurs in it, and finish_reason is "stop", however the
\* token counts compare with max_tokens.
C6_StopTruncation ==
    \A i \in 1..Len(choices) :
        StopsIn(Seed) # {} =>
            LET first == CHOOSE j \in StopsIn(Seed) : \A k \in StopsIn(Seed) : j <= k
                stop == local.stop_sequences[first]
                text == choices[i].text
            IN  /\ choices[i].finish_reason = Some("stop")
                /\ IsPrefix(text \o stop, Seed)
                /\ \A k \in 0..(Len(text) - 1) : SubSeq(Seed, k + 1, k + Len(stop)) # stop

\* The seed "ab" (quoted) with stops b, a and max_tokens 1: the text stops
\* before b although a occurs earlier and the seed has more than one token
C6_Witness ==
    /\ Len(choices) >= 1
    /\ local.echo
    /\ local.prompt = <<"\"", "a", "b", "\"">>
    /\ local.stop_sequences = << <<"b">>, <<"a">> >>
    /\ local.max_tokens = 1
    /\ choices[1].text = <<"\"", "a">>
    /\ choices[1].finish_reason = Some("stop")

C8_NoEchoEmptyText ==
    \A i \in 1..Len(choices) :
        ~local.echo => (choices[i].text = <<>> /\ choices[i].finish_reason = Some("content"))

\* Without echo, a prompt that holds the stop sequence gave an empty text
C8_Witness ==
    /\ pc = "respond"
    /\ req.echo = Some(FALSE)
    /\ req.prompt = Some(String(<<"a", "b">>))
    /\ req.stop = Some(Multiple(<< <<"b">>, <<"a">> >>))
    /\ req.max_tokens = Some(1)
    /\ Len(choices) = 2
    /\ choices[2].text = <<>>
    /\ choices[2].finish_reason = Some("content")

\* C9: truncate_to_tokens(text, m) returns text unchanged whenever
\* count_tokens(text) <= m, in particular for m = count_tokens(text).
C9_TruncateRoundTrip ==
    (/\ call.op = "truncate_to_tokens"
     /\ count_tokens(TokenCounter_new(call.model), call.text) <= call.max_tokens)
        => call.result = call.text

\* A text of several tokens truncated to exactly its token count
C9_Witness ==
    /\ call.op = "truncate_to_tokens"
    /\ call.text = <<"a", ROBOT>>
    /\ call.model = GPT_4
    /\ call.max_tokens = 4
    /\ count_tokens(TokenCounter_new(call.model), call.text) = 4
    /\ call.result = call.text

\* C10: every request that passes validation gets a successful response
\* whose usage.total_tokens is prompt_tokens + completion_tokens as integers
\* (the sum neither wraps nor aborts the request).
C10_TotalIsSum ==
    (Answered /\ resp.status # 400) =>
        /\ resp.status = 200
        /\ resp.usage.total_tokens = resp.usage.prompt_tokens + resp.usage.completion_tokens

\* The text of a prompt value: the empty string when the prompt is absent
PromptText(prompt) == IF prompt = None THEN <<>> ELSE prompt[1].val

\* The request has passed validation and its locals are set
Validated == pc \in {"choices", "respond"} \/ (pc = "done" /\ resp.status # 400)

\* C11: an absent prompt is handled as the empty string (with echo the seed
\* text and every choice text are empty, and usage.prompt_tokens is 0), and
\* a prompt that is a text is handed to the choice generator as exactly that
\* text, so that under echo the seed text is the prompt's text.
C11_PromptAsText ==
    Validated =>
        /\ local.prompt = PromptText(req.prompt)
        /\ (req.prompt = None /\ local.echo) =>
               /\ Seed = <<>>
               /\ \A i \in 1..Len(choices) : choices[i].text = <<>>
        /\ (req.prompt = None /\ resp.status = 200) => resp.usage.prompt_tokens = 0

\* The positions (from 0) of the empty strings of a list
EmptyAt(list) == {i \in 0..(Len(list) - 1) : list[i + 1] = <<>>}

\* C12: validate_stop returns an error exactly for a present stop value that
\* is an empty single string, an empty list or a list holding an empty
\* string, and then the message names the position (from 0) of the first
\* empty element; it returns Ok for an absent value and for strings that are
\* all non-empty.  No stop list with an empty string reaches create_choices.
C12_StopValidation ==
    /\ call.op = "validate_stop" =>
           /\ is_err(call.result) <=> StopFails(call.stop)
           /\ ~is_err(call.result) => call.result = Ok
           /\ (call.stop # None /\ call.stop[1].tag = "Multiple" /\ EmptyAt(call.stop[1].val) # {}) =>
                  \E i \in EmptyAt(call.stop[1].val) :
                      /\ \A j \in EmptyAt(call.stop[1].val) : i <= j
                      /\ call.result.msg = <<"Stop sequence at index cannot be empty", i>>
    /\ Validated => \A i \in 1..Len(local.stop_sequences) : local.stop_sequences[i] # <<>>

\* A list whose second and third strings are empty was rejected, naming 1
C12_Witness ==
    /\ call.op = "validate_stop"
    /\ call.stop = Some(Multiple(<< <<"a">>, <<>>, <<>> >>))
    /\ is_err(call.result)
    /\ call.result.msg[2] = 1

\* C13: when a logprobs count is requested every choice carries a Logprobs
\* value, whether its finish_reason is "stop", "length" or "content"; when
\* none is requested no choice carries one.
C13_LogprobsAttached ==
    \A i \in 1..Len(choices) :
        (local.logprobs # None) <=> (choices[i].logprobs # None)

\* The number of maximal runs of non-whitespace characters of a text
Words(text) ==
    Cardinality({i \in 1..Len(text) : text[i] # " " /\ (i = 1 \/ text[i - 1] = " ")})

\* C14: a Logprobs value made for requested count k has tokens,
\* token_logprobs, text_offset and top_logprobs of one length, the number of
\* whitespace-separated tokens of the text, and each top_logprobs mapping
\* has exactly k entries, whatever the random source returns.
C14_LogprobsShape ==
    \A i \in 1..Len(choices) :
        choices[i].logprobs # None =>
            LET lp == choices[i].logprobs[1]
                count == Words(choices[i].text)
            IN  /\ Len(lp.tokens) = count
                /\ Len(lp.token_logprobs) = count
                /\ Len(lp.text_offset) = count
                /\ Len(lp.top_logprobs) = count
                /\ \A j \in 1..count :
                       Cardinality(DOMAIN lp.top_logprobs[j]) = local.logprobs[1]

\* C15: in a successful response usage.prompt_tokens and
\* usage.completion_tokens are the counts calculate_usage gives, under the
\* encoding of the request's model, for the prompt (its text, or the text
\* handed to create_choices) and the text of the choices.
C15_UsageFromTokenCounter ==
    (Answered /\ resp.status = 200) =>
        \E prompt \in {PromptText(req.prompt), local.prompt} :
            \A i \in 1..Len(resp.choices) :
                LET usage == calculate_usage(TokenCounter_new(req.model), prompt,
                                             resp.choices[i].text)
                IN  /\ resp.usage.prompt_tokens = usage.prompt_tokens
                    /\ resp.usage.completion_tokens = usage.completion_tokens

\* The known model identifiers with their encoding families
KnownModels ==
    {<<GPT_4, "cl100k_base">>, <<GPT_35_TURBO, "cl100k_base">>,
     <<TEXT_EMBEDDING_ADA_002, "cl100k_base">>,
     <<GPT_4O, "o200k_base">>, <<GPT_4O_MINI, "o200k_base">>,
     <<TEXT_DAVINCI_002, "p50k_base">>, <<TEXT_DAVINCI_003, "p50k_base">>}

\* The known identifiers a name equals or starts with
Matches(model) == {k \in KnownModels : IsPrefix(k[1], model)}

\* The family of the longest known identifier a name equals or starts with,
\* the default family when there is none
FamilyOf(model) ==
    IF Matches(model) = {} THEN "cl100k_base"
    ELSE (CHOOSE k \in Matches(model) : \A j \in Matches(model) : Len(j[1]) <= Len(k[1]))[2]

\* C16: TokenCounter::new never fails, and selects the family of the known
\* identifier the model name equals or starts with, the default family
\* cl100k_base only when the name matches none.
C16_PrefixMatch ==
    call.op = "new" =>
        /\ call.result # None
        /\ call.result[1].encoding = get_encoding(FamilyOf(call.model))

\* The text and finish_reason that the generation rules give for the
\* arguments of create_choices, and for nothing else
Determined(prompt, stops, max_tokens, echo, model) ==
    LET seed == IF echo THEN prompt ELSE <<>>
        hits == {j \in 1..Len(stops) : OccursIn(stops[j], seed)}
        tokens == encode_ordinary(TokenCounter_new(model).encoding, seed)
    IN  IF hits # {}
        THEN LET stop == stops[CHOOSE j \in hits : \A k \in hits : j <= k]
                 at == {k \in 0..(Len(seed) - Len(stop)) : SubSeq(seed, k + 1, k + Len(stop)) = stop}
             IN  <<SubSeq(seed, 1, CHOOSE k \in at : \A j \in at : k <= j), "stop">>
        ELSE IF Len(tokens) >= max_tokens
        THEN <<from_utf8_lossy(decode(SubSeq(tokens, 1, max_tokens))), "length">>
        ELSE <<seed, "content">>

C18_Original ==
    \A i \in 1..Len(choices) : StopsIn(choices[i].text) = {}

\* C18 amended: when finish_reason is "stop", the text contains neither the
\* stop sequence that cut it (the first in list order that occurs in the
\* seed text) nor any stop sequence listed before it, but may contain one
\* listed after it; when finish_reason is "content" the text contains no
\* stop sequence; when it is "length" the seed text it was cut from contains
\* none.
C18_NoTriggeringStop ==
    \A i \in 1..Len(choices) :
        LET text == choices[i].text
            reason == choices[i].finish_reason
        IN  /\ reason = Some("stop") =>
                   /\ StopsIn(Seed) # {}
                   /\ \E first \in StopsIn(Seed) :
                          /\ \A k \in StopsIn(Seed) : first <= k
                          /\ \A j \in 1..first : j \notin StopsIn(text)
            /\ reason = Some("content") => StopsIn(text) = {}
            /\ reason = Some("length") => StopsIn(Seed) = {}

\* Cut at the first listed stop sequence, the text still holds the second
C18_Witness ==
    /\ Len(choices) = 2
    /\ local.echo
    /\ local.prompt = <<"\"", "b", "a", "\"">>
    /\ local.stop_sequences = << <<"a">>, <<"b">> >>
    /\ choices[2].finish_reason = Some("stop")
    /\ choices[2].text = <<"\"", "b">>
    /\ StopsIn(choices[2].text) = {2}

=============================================================================
